---- MODULE Spec2Model ----
(***************************************************************************)
(* The coordinator core of src/core/coordinator.py: the Message envelope,  *)
(* the agent registry, the message queue, the dispatch loop start()/stop() *)
(* with route_message, the registry queries and the Workflow, together    *)
(* with the driver sequences of src/cli/commands.py,                       *)
(* src/examples/coordinated_workflow.py and src/web/api.py.                *)
(*                                                                         *)
(* Scheduling is asyncio's: one task runs at a time and control changes    *)
(* hands only where a coroutine suspends.  The dispatch loop suspends in   *)
(* queue.get() on an empty queue and (possibly) inside the agent's         *)
(* process and handle_error; put() on the unbounded queue never suspends.  *)
(* The position "check" (the while test of start()) is not a suspension    *)
(* point, so no other task acts while a loop is there.                     *)
(***************************************************************************)
EXTENDS Integers, Sequences, FiniteSets, TLC

VARIABLES
    agents,     \* AgentCoordinator.agents: insertion-ordered dict, as a sequence of [name, agent]
    queue,      \* AgentCoordinator.message_queue: FIFO of Messages
    running,    \* AgentCoordinator._running
    pc,         \* position of each start() task
    cur,        \* the `message` local of start()/route_message, per task
    recv,       \* the `receiver` local of route_message, per task
    err,        \* the exception `e` caught in route_message, per task
    sent,       \* history: every message put on the queue, in order, with who put it
    calls,      \* history: what the dispatch loop did, in order
    halt,       \* history: the situation at the last stop() not yet followed by a start()
    nops,       \* history: number of calls made on the coordinator from outside the loop
    dpc,        \* position of the driver (execute_workflow / main)
    wdata,      \* the workflow description the driver was given
    steps,      \* Workflow.steps
    results,    \* Workflow.results
    kind,       \* which driver runs: "cli" (commands.py run), "example" (coordinated_workflow.py main), "web" (api.py)
    regs,       \* history: the agents passed to register_agent, in call order
    query,      \* history: the last get_agent_capabilities / delegate_task call and what it returned
    out         \* history: what the driver got back from Workflow.execute, per workflow

vars == <<agents, queue, running, pc, cur, recv, err, sent, calls, halt, nops,
          dpc, wdata, steps, results, kind, regs, query, out>>
coordVars == <<agents, queue, running>>
loopVars == <<pc, cur, recv, err>>
driverVars == <<dpc, wdata, steps, results, kind>>
histVars == <<sent, calls, halt, nops>>
obsVars == <<regs, query, out>>

----------------------------------------------------------------------------
(* Bounds *)

MaxOps == 3         \* calls made on the coordinator by producers (Spec)
MaxRoutes == 3      \* messages the loop dequeues (Spec)
MaxTasks == 2       \* start() tasks that can exist
MaxSteps == 2       \* steps of a workflow description

Loops == 1..MaxTasks

----------------------------------------------------------------------------
(* Data *)

None == "None"

\* Agents (BaseAgent instances): identity, config.name, config.capabilities.
A1 == [id |-> 1, name |-> "a", capabilities |-> <<"echo">>]
A2 == [id |-> 2, name |-> "a", capabilities |-> <<"upper">>]
B1 == [id |-> 3, name |-> "b", capabilities |-> <<"echo", "upper">>]
AgentObjs == {A1, A2, B1}

Senders == {"b", "t"}
Receivers == {"a"}
Contents == {"x"}
Results == {"r"}
Errors == {"E1"}
MessageTypes == {"process"}

\* context: Dict[str, Any]; the only key read is "requires_response".
EmptyContext == [k \in {} |-> TRUE]
Contexts == {EmptyContext} \cup {[k \in {"requires_response"} |-> b] : b \in BOOLEAN}

\* class Message
Message(s, r, c, t, x) ==
    [sender |-> s, receiver |-> r, content |-> c, message_type |-> t, context |-> x]

Messages ==
    {Message(s, r, c, t, x) : s \in Senders, r \in Receivers, c \in Contents,
                              t \in MessageTypes, x \in Contexts}

\* The value of the locals `message` and `receiver` of a task that is not
\* inside route_message.
NoMessage == Message("", "", "", "", EmptyContext)
NoAgent == [id |-> 0, name |-> "", capabilities |-> <<>>]

\* dict.get(key, default)
DictGet(d, key, default) == IF key \in DOMAIN d THEN d[key] ELSE default

----------------------------------------------------------------------------
(* Registry: a Python dict keeps the position of a key's first insertion. *)

RECURSIVE IndexOf(_, _, _)
IndexOf(reg, name, i) ==
    IF i > Len(reg) THEN 0
    ELSE IF reg[i].name = name THEN i
    ELSE IndexOf(reg, name, i + 1)

\* `name in self.agents`
HasAgent(reg, name) == IndexOf(reg, name, 1) # 0

\* `self.agents[name]`
AgentAt(reg, name) == reg[IndexOf(reg, name, 1)].agent

\* A registration that keeps the agent already held under the name.
DictSetKeepFirst(reg, agent) ==
    LET i == IndexOf(reg, agent.name, 1) IN
    IF i = 0 THEN Append(reg, [name |-> agent.name, agent |-> agent])
    ELSE reg

\* self.agents[agent.config.name] = agent
DictSet(reg, agent) ==
    LET i == IndexOf(reg, agent.name, 1) IN
    IF i = 0 THEN Append(reg, [name |-> agent.name, agent |-> agent])
    ELSE [reg EXCEPT ![i] = [name |-> agent.name, agent |-> agent]]

RECURSIVE RegisterAll(_, _)
RegisterAll(reg, as) ==
    IF as = <<>> THEN reg ELSE RegisterAll(DictSet(reg, Head(as)), Tail(as))

\* The agent lists passed to setup_agents() before the coordinator is used.
SetupLists == {<<>>, <<A1>>, <<A1, B1>>}

----------------------------------------------------------------------------
(* History *)

\* The messages the loop has dequeued and passed to route_message, in order.
IsRouting(e) == e.op \in {"process", "not_found"}
Routings == SelectSeq(calls, IsRouting)
Routed == [i \in 1..Len(Routings) |-> Routings[i].msg]

\* The messages put on the queue, in order.
Enqueued == [i \in 1..Len(sent) |-> sent[i].msg]

\* No get_agent_capabilities / delegate_task call has been made.
NoQuery == [op |-> "none", arg |-> "", result |-> <<>>]

NoHalt == [stopped |-> FALSE, pc |-> <<>>, cur |-> <<>>, queue |-> <<>>, routed |-> 0,
           agents |-> <<>>]

----------------------------------------------------------------------------
(* Scheduling *)

\* A start() task is inside route_message, in an agent call.
InFlight(l) == pc[l] \in {"process", "handle"}

\* No task is between two suspension points: the loop is not at its while
\* test and the driver is not between two awaits that suspend. After
\* execute() the run command goes on to stop() without suspending, while the
\* websocket handler is suspended in `await websocket.send_json(...)`.
Idle ==
    /\ \A l \in Loops : pc[l] # "check"
    /\ dpc \notin {"built", "spawned"}
    /\ dpc = "executed" => kind = "web"

----------------------------------------------------------------------------
(* Initial state: AgentCoordinator.__init__ followed by setup_agents(). *)

InitCoordinator(setup) ==
    /\ agents = RegisterAll(<<>>, setup)
    /\ queue = <<>>
    /\ running = FALSE

InitLoops ==
    /\ pc = [l \in Loops |-> "none"]
    /\ cur = [l \in Loops |-> NoMessage]
    /\ recv = [l \in Loops |-> NoAgent]
    /\ err = [l \in Loops |-> None]

InitHistory ==
    /\ sent = <<>>
    /\ calls = <<>>
    /\ halt = NoHalt
    /\ nops = 0
    /\ query = NoQuery
    /\ out = <<>>

Init ==
    /\ \E setup \in SetupLists : InitCoordinator(setup) /\ regs = setup
    /\ InitLoops
    /\ InitHistory
    /\ dpc = "off"
    /\ wdata = <<>>
    /\ steps = <<>>
    /\ results = <<>>
    /\ kind = "none"

----------------------------------------------------------------------------
(* Operations called from outside the dispatch loop *)

\* AgentCoordinator.register_agent
register_agent(agent) ==
    /\ Idle
    /\ nops' = nops + 1
    /\ agents' = DictSet(agents, agent)
    /\ regs' = Append(regs, agent)
    /\ UNCHANGED <<queue, running, loopVars, sent, calls, halt, driverVars, query, out>>

\* A queue that hands out the newest message first.
QueuePutFront(q, message) == <<message>> \o q

\* self.message_queue.put(message): put_nowait on the unbounded queue
QueuePut(q, message) == Append(q, message)

\* A send that completes only on a coordinator whose loop is running and not
\* inside an agent call.
send_message_when_served(message) ==
    /\ Idle
    /\ running
    /\ \A l \in Loops : ~InFlight(l)
    /\ nops' = nops + 1
    /\ queue' = QueuePut(queue, message)
    /\ sent' = Append(sent, [msg |-> message, by |-> "producer"])
    /\ UNCHANGED <<agents, running, loopVars, calls, halt, driverVars, obsVars>>

\* AgentCoordinator.send_message, called by a producer
send_message(message) ==
    /\ Idle
    /\ nops' = nops + 1
    /\ queue' = QueuePut(queue, message)
    /\ sent' = Append(sent, [msg |-> message, by |-> "producer"])
    /\ UNCHANGED <<agents, running, loopVars, calls, halt, driverVars, obsVars>>

\* The body of AgentCoordinator.stop
StopFlag ==
    /\ running' = FALSE
    /\ halt' = [stopped |-> TRUE, pc |-> pc, cur |-> cur, queue |-> queue,
                routed |-> Len(Routed), agents |-> agents]

\* A stop() that abandons the messages still queued.
stop_abandoning ==
    /\ Idle
    /\ nops' = nops + 1
    /\ StopFlag
    /\ queue' = <<>>
    /\ UNCHANGED <<agents, loopVars, sent, calls, driverVars, obsVars>>

\* A stop() that also cancels a task that is inside an agent call.
stop_cancelling ==
    /\ Idle
    /\ nops' = nops + 1
    /\ StopFlag
    /\ pc' = [l \in Loops |-> IF InFlight(l) THEN "done" ELSE pc[l]]
    /\ UNCHANGED <<agents, queue, cur, recv, err, sent, calls, driverVars, obsVars>>

\* AgentCoordinator.stop, called by a producer
stop ==
    /\ Idle
    /\ nops' = nops + 1
    /\ StopFlag
    /\ UNCHANGED <<agents, queue, loopVars, sent, calls, driverVars, obsVars>>

\* asyncio.create_task(coordinator.start()): the task exists but has not run yet.
create_task(l) ==
    /\ Idle
    /\ pc[l] = "none"
    /\ pc' = [pc EXCEPT ![l] = "created"]
    /\ UNCHANGED <<coordVars, cur, recv, err, histVars, driverVars, obsVars>>

----------------------------------------------------------------------------
(* The dispatch loop: AgentCoordinator.start and route_message *)

\* A lookup `self.agents[message.receiver]` without the membership test: the
\* KeyError of an unknown receiver leaves start().
GetAndRouteKeyError(l) ==
    LET message == Head(queue) IN
    /\ queue # <<>>
    /\ queue' = Tail(queue)
    /\ IF HasAgent(agents, message.receiver)
       THEN /\ pc' = [pc EXCEPT ![l] = "process"]
            /\ cur' = [cur EXCEPT ![l] = message]
            /\ recv' = [recv EXCEPT ![l] = AgentAt(agents, message.receiver)]
            /\ calls' = Append(calls, [op |-> "process", loop |-> l, msg |-> message,
                                       agent |-> AgentAt(agents, message.receiver),
                                       input |-> message.content])
       ELSE /\ pc' = [pc EXCEPT ![l] = "failed"]
            /\ cur' = [cur EXCEPT ![l] = NoMessage]
            /\ recv' = [recv EXCEPT ![l] = NoAgent]
            /\ calls' = Append(calls, [op |-> "not_found", loop |-> l, msg |-> message])
    /\ UNCHANGED <<agents, running, err, sent, halt, nops, driverVars, obsVars>>

\* A get() that hands the message out and leaves it on the queue.
GetAndRoutePeek(l) ==
    LET message == Head(queue) IN
    /\ queue # <<>>
    /\ queue' = queue
    /\ IF HasAgent(agents, message.receiver)
       THEN /\ pc' = [pc EXCEPT ![l] = "process"]
            /\ cur' = [cur EXCEPT ![l] = message]
            /\ recv' = [recv EXCEPT ![l] = AgentAt(agents, message.receiver)]
            /\ calls' = Append(calls, [op |-> "process", loop |-> l, msg |-> message,
                                       agent |-> AgentAt(agents, message.receiver),
                                       input |-> message.content])
       ELSE /\ pc' = [pc EXCEPT ![l] = "check"]
            /\ cur' = [cur EXCEPT ![l] = NoMessage]
            /\ recv' = [recv EXCEPT ![l] = NoAgent]
            /\ calls' = Append(calls, [op |-> "not_found", loop |-> l, msg |-> message])
    /\ UNCHANGED <<agents, running, err, sent, halt, nops, driverVars, obsVars>>

\* A not-found branch that sends the message back to its sender.
GetAndRouteBounce(l) ==
    LET message == Head(queue) IN
    /\ queue # <<>>
    /\ IF HasAgent(agents, message.receiver)
       THEN /\ queue' = Tail(queue)
            /\ pc' = [pc EXCEPT ![l] = "process"]
            /\ cur' = [cur EXCEPT ![l] = message]
            /\ recv' = [recv EXCEPT ![l] = AgentAt(agents, message.receiver)]
            /\ calls' = Append(calls, [op |-> "process", loop |-> l, msg |-> message,
                                       agent |-> AgentAt(agents, message.receiver),
                                       input |-> message.content])
            /\ sent' = sent
       ELSE /\ queue' = Append(Tail(queue), message)
            /\ sent' = Append(sent, [msg |-> message, by |-> "reply"])
            /\ pc' = [pc EXCEPT ![l] = "check"]
            /\ cur' = [cur EXCEPT ![l] = NoMessage]
            /\ recv' = [recv EXCEPT ![l] = NoAgent]
            /\ calls' = Append(calls, [op |-> "not_found", loop |-> l, msg |-> message])
    /\ UNCHANGED <<agents, running, err, halt, nops, driverVars, obsVars>>

\* A routing that takes a message of type "response" as the answer to an
\* earlier request and does not hand it to the receiver.
GetAndRouteTyped(l) ==
    LET message == Head(queue) IN
    /\ queue # <<>>
    /\ queue' = Tail(queue)
    /\ IF HasAgent(agents, message.receiver) /\ message.message_type # "response"
       THEN /\ pc' = [pc EXCEPT ![l] = "process"]
            /\ cur' = [cur EXCEPT ![l] = message]
            /\ recv' = [recv EXCEPT ![l] = AgentAt(agents, message.receiver)]
            /\ calls' = Append(calls, [op |-> "process", loop |-> l, msg |-> message,
                                       agent |-> AgentAt(agents, message.receiver),
                                       input |-> message.content])
       ELSE /\ pc' = [pc EXCEPT ![l] = "check"]
            /\ cur' = [cur EXCEPT ![l] = NoMessage]
            /\ recv' = [recv EXCEPT ![l] = NoAgent]
            /\ calls' = Append(calls, [op |-> "not_found", loop |-> l, msg |-> message])
    /\ UNCHANGED <<agents, running, err, sent, halt, nops, driverVars, obsVars>>

\* A routing that hands the message to the agent first registered under the
\* receiver's name, whatever was registered under it since.
GetAndRouteFirstRegistered(l) ==
    LET message == Head(queue)
        first == CHOOSE k \in 1..Len(regs) :
                    /\ regs[k].name = message.receiver
                    /\ \A j \in 1..Len(regs) : regs[j].name = message.receiver => k <= j
    IN
    /\ queue # <<>>
    /\ queue' = Tail(queue)
    /\ IF HasAgent(agents, message.receiver)
       THEN /\ pc' = [pc EXCEPT ![l] = "process"]
            /\ cur' = [cur EXCEPT ![l] = message]
            /\ recv' = [recv EXCEPT ![l] = regs[first]]
            /\ calls' = Append(calls, [op |-> "process", loop |-> l, msg |-> message,
                                       agent |-> regs[first],
                                       input |-> message.content])
       ELSE /\ pc' = [pc EXCEPT ![l] = "check"]
            /\ cur' = [cur EXCEPT ![l] = NoMessage]
            /\ recv' = [recv EXCEPT ![l] = NoAgent]
            /\ calls' = Append(calls, [op |-> "not_found", loop |-> l, msg |-> message])
    /\ UNCHANGED <<agents, running, err, sent, halt, nops, driverVars, obsVars>>

\* `message = await self.message_queue.get()` on a non-empty queue, then
\* route_message up to the call of receiver.process (or the not-found branch,
\* after which task_done() leads back to the while test).
GetAndRoute(l) ==
    LET message == Head(queue) IN
    /\ queue # <<>>
    /\ queue' = Tail(queue)
    /\ IF HasAgent(agents, message.receiver)
       THEN /\ pc' = [pc EXCEPT ![l] = "process"]
            /\ cur' = [cur EXCEPT ![l] = message]
            /\ recv' = [recv EXCEPT ![l] = AgentAt(agents, message.receiver)]
            /\ calls' = Append(calls, [op |-> "process", loop |-> l, msg |-> message,
                                       agent |-> AgentAt(agents, message.receiver),
                                       input |-> message.content])
       ELSE /\ pc' = [pc EXCEPT ![l] = "check"]
            /\ cur' = [cur EXCEPT ![l] = NoMessage]
            /\ recv' = [recv EXCEPT ![l] = NoAgent]
            /\ calls' = Append(calls, [op |-> "not_found", loop |-> l, msg |-> message])
    /\ UNCHANGED <<agents, running, err, sent, halt, nops, driverVars, obsVars>>

\* A start() that honours a stop() issued before it began to run.
start_unless_stopped(l) ==
    /\ Idle
    /\ pc[l] = "created"
    /\ running' = ~halt.stopped
    /\ pc' = [pc EXCEPT ![l] = "check"]
    /\ halt' = NoHalt
    /\ UNCHANGED <<agents, queue, cur, recv, err, sent, calls, nops, driverVars, obsVars>>

\* start(): first run of the task, `self._running = True`
start(l) ==
    /\ Idle
    /\ pc[l] = "created"
    /\ running' = TRUE
    /\ pc' = [pc EXCEPT ![l] = "check"]
    /\ halt' = NoHalt
    /\ UNCHANGED <<agents, queue, cur, recv, err, sent, calls, nops, driverVars, obsVars>>

\* start(): `while self._running:` is false, start() returns
loop_exit(l) ==
    /\ pc[l] = "check"
    /\ ~running
    /\ pc' = [pc EXCEPT ![l] = "done"]
    /\ UNCHANGED <<coordVars, cur, recv, err, histVars, driverVars, obsVars>>

\* start(): the while test is true and the queue is empty, get() suspends
loop_wait(l) ==
    /\ pc[l] = "check"
    /\ running
    /\ queue = <<>>
    /\ pc' = [pc EXCEPT ![l] = "waiting"]
    /\ UNCHANGED <<coordVars, cur, recv, err, histVars, driverVars, obsVars>>

\* A loop that drains the queue before it honours stop().
loop_get_drain(l) ==
    /\ pc[l] = "check"
    /\ running \/ queue # <<>>
    /\ GetAndRoute(l)

\* start(): the while test is true and get() returns at once
loop_get(l) ==
    /\ pc[l] = "check"
    /\ running
    /\ GetAndRoute(l)

\* A loop that takes the next message while an agent call is in flight.
loop_wake_reentrant(l) ==
    /\ Idle
    /\ pc[l] \in {"waiting", "process"}
    /\ GetAndRoute(l)

\* start(): a get() that was suspended returns; the running flag is not read
loop_wake(l) ==
    /\ Idle
    /\ pc[l] = "waiting"
    /\ GetAndRoute(l)

\* A reply addressed to the agent that produced it.
ResponseNoSwap(message, result) ==
    Message(message.sender, message.receiver, result, "response", message.context)

\* route_message, lines 38-44: the reply to `message` when process returned `result`
Response(message, result) ==
    Message(message.receiver, message.sender, result, "response", message.context)

\* A reply unless the context says otherwise.
WantsResponseByDefault(message) == DictGet(message.context, "requires_response", TRUE)

\* route_message, line 37
WantsResponse(message) == DictGet(message.context, "requires_response", FALSE)

\* A routing whose reply goes to the front of the queue.
process_return_reply_first(l, result) ==
    LET message == cur[l] IN
    /\ Idle
    /\ pc[l] = "process"
    /\ IF WantsResponse(message)
       THEN /\ queue' = <<Response(message, result)>> \o queue
            /\ sent' = Append(sent, [msg |-> Response(message, result), by |-> "reply"])
       ELSE UNCHANGED <<queue, sent>>
    /\ pc' = [pc EXCEPT ![l] = "check"]
    /\ cur' = [cur EXCEPT ![l] = NoMessage]
    /\ recv' = [recv EXCEPT ![l] = NoAgent]
    /\ calls' = Append(calls, [op |-> "return", loop |-> l, result |-> result])
    /\ UNCHANGED <<agents, running, err, halt, nops, driverVars, obsVars>>

\* A routing that stores what process returned in the Workflow's results.
process_return_collect(l, result) ==
    LET message == cur[l] IN
    /\ Idle
    /\ pc[l] = "process"
    /\ IF WantsResponse(message)
       THEN /\ queue' = QueuePut(queue, Response(message, result))
            /\ sent' = Append(sent, [msg |-> Response(message, result), by |-> "reply"])
       ELSE UNCHANGED <<queue, sent>>
    /\ results' = Append(results, result)
    /\ pc' = [pc EXCEPT ![l] = "check"]
    /\ cur' = [cur EXCEPT ![l] = NoMessage]
    /\ recv' = [recv EXCEPT ![l] = NoAgent]
    /\ calls' = Append(calls, [op |-> "return", loop |-> l, result |-> result])
    /\ UNCHANGED <<agents, running, err, halt, nops, dpc, wdata, steps, kind, obsVars>>

\* route_message: receiver.process returned `result`
process_return(l, result) ==
    LET message == cur[l] IN
    /\ Idle
    /\ pc[l] = "process"
    /\ IF WantsResponse(message)
       THEN /\ queue' = QueuePut(queue, Response(message, result))
            /\ sent' = Append(sent, [msg |-> Response(message, result), by |-> "reply"])
       ELSE UNCHANGED <<queue, sent>>
    /\ pc' = [pc EXCEPT ![l] = "check"]
    /\ cur' = [cur EXCEPT ![l] = NoMessage]
    /\ recv' = [recv EXCEPT ![l] = NoAgent]
    /\ calls' = Append(calls, [op |-> "return", loop |-> l, result |-> result])
    /\ UNCHANGED <<agents, running, err, halt, nops, driverVars, obsVars>>

\* A failure that puts the message back on the queue for another try.
process_raise_requeue(l, e) ==
    /\ Idle
    /\ pc[l] = "process"
    /\ pc' = [pc EXCEPT ![l] = "handle"]
    /\ err' = [err EXCEPT ![l] = e]
    /\ calls' = calls \o << [op |-> "raise", loop |-> l, error |-> e],
                            [op |-> "handle_error", loop |-> l, agent |-> recv[l], error |-> e] >>
    /\ queue' = QueuePut(queue, cur[l])
    /\ UNCHANGED <<agents, running, cur, recv, sent, halt, nops, driverVars, obsVars>>

\* A failure that is also reported to the sender as a reply.
process_raise_reply(l, e) ==
    /\ Idle
    /\ pc[l] = "process"
    /\ pc' = [pc EXCEPT ![l] = "handle"]
    /\ err' = [err EXCEPT ![l] = e]
    /\ calls' = calls \o << [op |-> "raise", loop |-> l, error |-> e],
                            [op |-> "handle_error", loop |-> l, agent |-> recv[l], error |-> e] >>
    /\ queue' = QueuePut(queue, Response(cur[l], e))
    /\ sent' = Append(sent, [msg |-> Response(cur[l], e), by |-> "reply"])
    /\ UNCHANGED <<agents, running, cur, recv, halt, nops, driverVars, obsVars>>

\* A failure after which process is invoked a second time on the message
\* before the error is handled.
process_raise_retry(l, e) ==
    /\ Idle
    /\ pc[l] = "process"
    /\ pc' = [pc EXCEPT ![l] = "handle"]
    /\ err' = [err EXCEPT ![l] = e]
    /\ calls' = calls \o << [op |-> "raise", loop |-> l, error |-> e],
                            [op |-> "process", loop |-> l, msg |-> cur[l],
                             agent |-> recv[l], input |-> cur[l].content],
                            [op |-> "raise", loop |-> l, error |-> e],
                            [op |-> "handle_error", loop |-> l, agent |-> recv[l], error |-> e] >>
    /\ UNCHANGED <<coordVars, cur, recv, sent, halt, nops, driverVars, obsVars>>

\* route_message: receiver.process raised `e`; receiver.handle_error(e) is called
process_raise(l, e) ==
    /\ Idle
    /\ pc[l] = "process"
    /\ pc' = [pc EXCEPT ![l] = "handle"]
    /\ err' = [err EXCEPT ![l] = e]
    /\ calls' = calls \o << [op |-> "raise", loop |-> l, error |-> e],
                            [op |-> "handle_error", loop |-> l, agent |-> recv[l], error |-> e] >>
    /\ UNCHANGED <<coordVars, cur, recv, sent, halt, nops, driverVars, obsVars>>

\* A failure that ends the loop once it has been handled.
handle_return_exit(l) ==
    /\ Idle
    /\ pc[l] = "handle"
    /\ pc' = [pc EXCEPT ![l] = "done"]
    /\ cur' = [cur EXCEPT ![l] = NoMessage]
    /\ recv' = [recv EXCEPT ![l] = NoAgent]
    /\ err' = [err EXCEPT ![l] = None]
    /\ calls' = Append(calls, [op |-> "handled", loop |-> l])
    /\ UNCHANGED <<coordVars, sent, halt, nops, driverVars, obsVars>>

\* route_message: receiver.handle_error returned
handle_return(l) ==
    /\ Idle
    /\ pc[l] = "handle"
    /\ pc' = [pc EXCEPT ![l] = "check"]
    /\ cur' = [cur EXCEPT ![l] = NoMessage]
    /\ recv' = [recv EXCEPT ![l] = NoAgent]
    /\ err' = [err EXCEPT ![l] = None]
    /\ calls' = Append(calls, [op |-> "handled", loop |-> l])
    /\ UNCHANGED <<coordVars, sent, halt, nops, driverVars, obsVars>>

\* A failure whose handler crashed takes the agent out of the registry.
handle_raise_unregister(l) ==
    LET Others(e) == e.name # recv[l].name IN
    /\ Idle
    /\ pc[l] = "handle"
    /\ pc' = [pc EXCEPT ![l] = "failed"]
    /\ calls' = Append(calls, [op |-> "crash", loop |-> l])
    /\ agents' = SelectSeq(agents, Others)
    /\ UNCHANGED <<queue, running, cur, recv, err, sent, halt, nops, driverVars, obsVars>>

\* A failure of handle_error that route_message swallows.
handle_raise_caught(l) ==
    /\ Idle
    /\ pc[l] = "handle"
    /\ pc' = [pc EXCEPT ![l] = "check"]
    /\ calls' = Append(calls, [op |-> "crash", loop |-> l])
    /\ UNCHANGED <<coordVars, cur, recv, err, sent, halt, nops, driverVars, obsVars>>

\* route_message: receiver.handle_error raised; the exception leaves start()
handle_raise(l) ==
    /\ Idle
    /\ pc[l] = "handle"
    /\ pc' = [pc EXCEPT ![l] = "failed"]
    /\ calls' = Append(calls, [op |-> "crash", loop |-> l])
    /\ UNCHANGED <<coordVars, cur, recv, err, sent, halt, nops, driverVars, obsVars>>

----------------------------------------------------------------------------
(* Spec: one coordinator, producers, and a single start(). *)

Next ==
    \/ nops < MaxOps /\ \E agent \in AgentObjs : register_agent(agent)
    \/ nops < MaxOps /\ \E message \in Messages : send_message(message)
    \/ nops < MaxOps /\ stop
    \/ create_task(1)
    \/ start(1)
    \/ loop_exit(1)
    \/ loop_wait(1)
    \/ Len(Routed) < MaxRoutes /\ loop_get(1)
    \/ Len(Routed) < MaxRoutes /\ loop_wake(1)
    \/ \E result \in Results : process_return(1, result)
    \/ \E e \in Errors : process_raise(1, e)
    \/ handle_return(1)
    \/ handle_raise(1)

Spec == Init /\ [][Next]_vars

----------------------------------------------------------------------------
(* SpecTwo: one coordinator on which start() is called twice. Nothing in    *)
(* start() looks at an earlier start(), so the second task may be created   *)
(* while the first runs or after it has ended.                              *)

TwoTasks == {1, 2}

NextTwo ==
    \/ nops < MaxTasks /\ \E message \in Messages : send_message(message)
    \/ \E l \in TwoTasks : create_task(l)
    \/ \E l \in TwoTasks : start(l)
    \/ \E l \in TwoTasks : loop_wait(l)
    \/ Len(Routed) < MaxRoutes /\ \E l \in TwoTasks : loop_get(l)
    \/ Len(Routed) < MaxRoutes /\ \E l \in TwoTasks : loop_wake(l)
    \/ \E l \in TwoTasks, result \in Results : process_return(l, result)
    \/ \E l \in TwoTasks, e \in Errors : process_raise(l, e)
    \/ \E l \in TwoTasks : handle_return(l)
    \/ \E l \in TwoTasks : handle_raise(l)

SpecTwo == Init /\ [][NextTwo]_vars

\* SpecRestart: start() is called again after the first loop has ended.
NextRestart ==
    \/ nops < MaxOps /\ \E message \in Messages : send_message(message)
    \/ nops < MaxOps /\ stop
    \/ create_task(1)
    \/ pc[1] \in {"done", "failed"} /\ create_task(2)
    \/ \E l \in TwoTasks : start(l)
    \/ \E l \in TwoTasks : loop_exit(l)
    \/ \E l \in TwoTasks : loop_wait(l)
    \/ Len(Routed) < MaxRoutes /\ \E l \in TwoTasks : loop_get(l)
    \/ Len(Routed) < MaxRoutes /\ \E l \in TwoTasks : loop_wake(l)
    \/ \E l \in TwoTasks, result \in Results : process_return(l, result)
    \/ \E l \in TwoTasks, e \in Errors : process_raise(l, e)
    \/ \E l \in TwoTasks : handle_return(l)
    \/ \E l \in TwoTasks : handle_raise(l)

SpecRestart == Init /\ [][NextRestart]_vars

----------------------------------------------------------------------------
(* SpecLive: producers send finitely many messages, the loop is never       *)
(* stopped and every process call returns. The event loop runs the task     *)
(* whenever it is ready (weak fairness on its steps). The histories `sent`  *)
(* and `calls` are observations only: they are kept as a window of Window   *)
(* events that is emptied when it is full, so that a loop that routes for   *)
(* ever is a cycle of states.                                               *)

Window == 4

\* Empties the window of observations; no variable of the program changes.
forget ==
    /\ Len(calls) >= Window
    /\ calls' = <<>>
    /\ sent' = <<>>
    /\ UNCHANGED <<coordVars, loopVars, halt, nops, driverVars, obsVars>>

LiveLoopStep ==
    \/ create_task(1)
    \/ start(1)
    \/ loop_wait(1)
    \/ Len(calls) < Window /\ loop_get(1)
    \/ Len(calls) < Window /\ loop_wake(1)
    \/ \E result \in Results : process_return(1, result)
    \/ forget

NextLive ==
    \/ nops < MaxOps /\ \E message \in Messages : send_message(message)
    \/ LiveLoopStep

SpecLive ==
    /\ Init
    /\ [][NextLive]_vars
    /\ WF_vars(LiveLoopStep)

----------------------------------------------------------------------------
(* SpecTypes: producers send messages of several message types, among them  *)
(* "response", the type route_message gives to its replies.                 *)

TypedMessageTypes == MessageTypes \cup {"response", "analyze"}

TypedMessages ==
    {Message(s, r, c, t, x) : s \in Senders, r \in Receivers, c \in Contents,
                              t \in TypedMessageTypes, x \in Contexts}

NextTypes ==
    \/ nops < MaxTasks /\ \E message \in TypedMessages : send_message(message)
    \/ create_task(1)
    \/ start(1)
    \/ loop_wait(1)
    \/ Len(Routed) < MaxRoutes /\ loop_get(1)
    \/ Len(Routed) < MaxRoutes /\ loop_wake(1)
    \/ \E result \in Results : process_return(1, result)
    \/ \E e \in Errors : process_raise(1, e)
    \/ handle_return(1)

SpecTypes == Init /\ [][NextTypes]_vars

----------------------------------------------------------------------------
(* Workflow, and the driver of commands.py (run) and coordinated_workflow.py *)

\* The step dicts of a workflow description: "agent" and "input" are read with
\* step[...], "type" with step.get("type", "process").
StepDicts ==
    { [agent |-> "a", input |-> "x"],
      [agent |-> "b", input |-> "x", type |-> "analyze"],
      [input |-> "x"],
      [agent |-> "a"] }

RECURSIVE SeqsUpTo(_, _)
SeqsUpTo(S, n) ==
    IF n = 0 THEN {<<>>}
    ELSE SeqsUpTo(S, n - 1) \cup {Append(q, x) : q \in {r \in SeqsUpTo(S, n - 1) : Len(r) = n - 1}, x \in S}

\* workflow_data["steps"]
WorkflowData == SeqsUpTo(StepDicts, MaxSteps)

\* The sender the driver writes into its steps.
DriverName(k) == IF k = "cli" THEN "cli" ELSE "main"

\* step["agent"] and step["input"] do not raise KeyError
StepOk(step) == "agent" \in DOMAIN step /\ "input" \in DOMAIN step

\* Message(sender=..., receiver=step["agent"], content=step["input"],
\*         message_type=step.get("type", "process"), context={"requires_response": True})
StepMessage(sender, step) ==
    Message(sender, step["agent"], step["input"], DictGet(step, "type", "process"),
            [k \in {"requires_response"} |-> TRUE])

\* Workflow.add_step
add_step(ss, message) == Append(ss, message)

\* The for loop over workflow_data["steps"], up to the first step that raises.
RECURSIVE AddSteps(_, _, _)
AddSteps(ss, sender, data) ==
    IF data = <<>> \/ ~StepOk(Head(data)) THEN ss
    ELSE AddSteps(add_step(ss, StepMessage(sender, Head(data))), sender, Tail(data))

\* An execute that sends the steps last to first.
RECURSIVE ExecuteReversed(_, _)
ExecuteReversed(q, ss) ==
    IF ss = <<>> THEN q ELSE ExecuteReversed(QueuePut(q, ss[Len(ss)]), SubSeq(ss, 1, Len(ss) - 1))

\* Workflow.execute: one send_message per step, in list order
RECURSIVE Execute(_, _)
Execute(q, ss) ==
    IF ss = <<>> THEN q ELSE Execute(QueuePut(q, Head(ss)), Tail(ss))

\* The driver builds the Workflow from the description; a step without a
\* required key raises out of the driver.
drv_build ==
    /\ dpc = "build"
    /\ steps' = AddSteps(<<>>, DriverName(kind), wdata)
    /\ dpc' = IF \A i \in 1..Len(wdata) : StepOk(wdata[i]) THEN "built" ELSE "failed"
    /\ UNCHANGED <<coordVars, loopVars, histVars, wdata, results, kind, obsVars>>

\* coordinator_task = asyncio.create_task(coordinator.start())
drv_create_task ==
    /\ dpc = "built"
    /\ pc[1] = "none"
    /\ pc' = [pc EXCEPT ![1] = "created"]
    /\ dpc' = "spawned"
    /\ UNCHANGED <<coordVars, cur, recv, err, histVars, wdata, steps, results, kind, obsVars>>

\* results = await workflow.execute(); the example then awaits asyncio.sleep(1)
drv_execute ==
    /\ dpc = "spawned"
    /\ queue' = Execute(queue, steps)
    /\ sent' = sent \o [i \in 1..Len(steps) |-> [msg |-> steps[i], by |-> "workflow"]]
    /\ out' = Append(out, results)
    /\ dpc' = IF kind = "example" THEN "sleeping" ELSE "executed"
    /\ UNCHANGED <<agents, running, loopVars, calls, halt, nops, wdata, steps, results, kind,
                   regs, query>>

\* coordinator.stop(), followed by `await coordinator_task`
drv_stop ==
    /\ dpc \in {"executed", "sleeping"}
    /\ \A l \in Loops : pc[l] # "check"
    /\ StopFlag
    /\ dpc' = "joining"
    /\ UNCHANGED <<agents, queue, loopVars, sent, calls, nops, wdata, steps, results, kind, obsVars>>

\* `await coordinator_task` returns (or re-raises what left start())
drv_join ==
    /\ dpc = "joining"
    /\ \A l \in Loops : pc[l] # "check"
    /\ pc[1] \in {"done", "failed"}
    /\ dpc' = IF pc[1] = "done" THEN "returned" ELSE "error"
    /\ UNCHANGED <<coordVars, loopVars, histVars, wdata, steps, results, kind, obsVars>>

InitDriver ==
    /\ \E setup \in SetupLists : InitCoordinator(setup) /\ regs = setup
    /\ InitLoops
    /\ InitHistory
    /\ dpc = "build"
    /\ wdata \in WorkflowData
    /\ steps = <<>>
    /\ results = <<>>
    /\ kind \in {"cli", "example"}

DriverStep ==
    \/ drv_build
    \/ drv_create_task
    \/ drv_execute
    \/ drv_stop
    \/ drv_join

\* The loop task of the driver. No producer exists besides the driver, which
\* sends everything before the task first runs, so a suspended get() is never
\* woken (loop_wake has nothing to act on).
DriverLoopStep ==
    \/ start(1)
    \/ loop_exit(1)
    \/ loop_wait(1)
    \/ loop_get(1)
    \/ \E result \in Results : process_return(1, result)
    \/ \E e \in Errors : process_raise(1, e)
    \/ handle_return(1)
    \/ handle_raise(1)

NextDriver == DriverStep \/ DriverLoopStep

\* The event loop runs every task that is ready, and every agent call ends.
SpecDriver ==
    /\ InitDriver
    /\ [][NextDriver]_vars
    /\ WF_vars(DriverStep)
    /\ WF_vars(DriverLoopStep)

----------------------------------------------------------------------------
(* Registry queries: get_agent_capabilities and delegate_task *)

TaskTypes == {"echo", "upper", "none"}

\* `task_type in agent.get_capabilities()`: membership in the capabilities list
InCapabilities(task_type, capabilities) ==
    \E j \in 1..Len(capabilities) : capabilities[j] = task_type

\* {name: agent.get_capabilities() for name, agent in self.agents.items()}:
\* the dict as the sequence of its items, in the order of self.agents.
GetAgentCapabilities(reg) ==
    [i \in 1..Len(reg) |-> [name |-> reg[i].name, capabilities |-> reg[i].agent.capabilities]]

\* A scan that returns the last agent holding the capability.
RECURSIVE DelegateLast(_, _, _)
DelegateLast(reg, task_type, i) ==
    IF i > Len(reg) THEN <<>>
    ELSE IF DelegateLast(reg, task_type, i + 1) # <<>> THEN DelegateLast(reg, task_type, i + 1)
    ELSE IF InCapabilities(task_type, reg[i].agent.capabilities) THEN <<reg[i].agent>>
    ELSE <<>>

\* The scan of delegate_task from position i of self.agents.values(): a
\* one-element sequence holding the agent returned, or <<>> for None.
RECURSIVE DelegateFrom(_, _, _)
DelegateFrom(reg, task_type, i) ==
    IF i > Len(reg) THEN <<>>
    ELSE IF InCapabilities(task_type, reg[i].agent.capabilities) THEN <<reg[i].agent>>
    ELSE DelegateFrom(reg, task_type, i + 1)

\* AgentCoordinator.get_agent_capabilities
get_agent_capabilities ==
    /\ Idle
    /\ query' = [op |-> "get_agent_capabilities", arg |-> "",
                 result |-> GetAgentCapabilities(agents)]
    /\ nops' = nops + 1
    /\ UNCHANGED <<coordVars, loopVars, sent, calls, halt, driverVars, regs, out>>

\* AgentCoordinator.delegate_task(task, task_type); `task` is not read
delegate_task(task_type) ==
    /\ Idle
    /\ query' = [op |-> "delegate_task", arg |-> task_type,
                 result |-> DelegateFrom(agents, task_type, 1)]
    /\ nops' = nops + 1
    /\ UNCHANGED <<coordVars, loopVars, sent, calls, halt, driverVars, regs, out>>

\* A fresh coordinator: AgentCoordinator.__init__, nothing registered yet.
InitRegistry ==
    /\ InitCoordinator(<<>>)
    /\ regs = <<>>
    /\ InitLoops
    /\ InitHistory
    /\ dpc = "off"
    /\ wdata = <<>>
    /\ steps = <<>>
    /\ results = <<>>
    /\ kind = "none"

NextRegistry ==
    \/ nops < MaxOps /\ \E agent \in AgentObjs : register_agent(agent)
    \/ nops <= MaxOps /\ get_agent_capabilities
    \/ nops <= MaxOps /\ \E task_type \in TaskTypes : delegate_task(task_type)

SpecRegistry == InitRegistry /\ [][NextRegistry]_vars

----------------------------------------------------------------------------
(* The websocket endpoint of web/api.py: workflows submitted to a coordinator *)
(* whose loop was created at startup, next to the other callers of the API.   *)

\* The step dicts of a websocket request: "agent", "input" and "type" are all
\* read with step[...].
WebStepDicts ==
    { [agent |-> "a", input |-> "x", type |-> "process"],
      [agent |-> "b", input |-> "x", type |-> "analyze"],
      [agent |-> "a", input |-> "x"] }

\* The JSON objects received: with or without the key "steps".
WebRequests ==
    {[k \in {} |-> <<>>]} \cup {[steps |-> w] : w \in SeqsUpTo(WebStepDicts, MaxSteps)}

\* step["agent"], step["input"] and step["type"] do not raise KeyError
WebStepOk(step) == {"agent", "input", "type"} \subseteq DOMAIN step

\* Message(sender="web_client", receiver=step["agent"], content=step["input"],
\*         message_type=step["type"], context={"requires_response": True})
WebStepMessage(step) ==
    Message("web_client", step["agent"], step["input"], step["type"],
            [k \in {"requires_response"} |-> TRUE])

\* The for loop over data.get("steps", []), up to the first step that raises.
RECURSIVE WebAddSteps(_, _)
WebAddSteps(ss, data) ==
    IF data = <<>> \/ ~WebStepOk(Head(data)) THEN ss
    ELSE WebAddSteps(add_step(ss, WebStepMessage(Head(data))), Tail(data))

\* What a request counts against the bound on submitted work.
Cost(data) == IF Len(DictGet(data, "steps", <<>>)) = 0 THEN 1 ELSE Len(data["steps"])

\* A build that submits each step as soon as it is made.
web_build_eager(data) ==
    LET built == WebAddSteps(<<>>, DictGet(data, "steps", <<>>)) IN
    /\ Idle
    /\ dpc = "recv"
    /\ pc[1] # "created"
    /\ nops' = nops + Cost(data)
    /\ wdata' = DictGet(data, "steps", <<>>)
    /\ results' = <<>>
    /\ steps' = built
    /\ queue' = Execute(queue, built)
    /\ sent' = sent \o [i \in 1..Len(built) |-> [msg |-> built[i], by |-> "workflow"]]
    /\ dpc' = IF \A i \in 1..Len(wdata') : WebStepOk(wdata'[i]) THEN "built" ELSE "closed"
    /\ UNCHANGED <<agents, running, loopVars, calls, halt, kind, obsVars>>

\* receive_json() returns `data`; a new Workflow is built from it. A step
\* without a required key raises: the handler reports the error and ends.
web_build(data) ==
    /\ Idle
    /\ dpc = "recv"
    /\ pc[1] # "created"
    /\ nops' = nops + Cost(data)
    /\ wdata' = DictGet(data, "steps", <<>>)
    /\ results' = <<>>
    /\ steps' = WebAddSteps(<<>>, wdata')
    /\ dpc' = IF \A i \in 1..Len(wdata') : WebStepOk(wdata'[i]) THEN "built" ELSE "closed"
    /\ UNCHANGED <<coordVars, loopVars, sent, calls, halt, kind, obsVars>>

\* results = await workflow.execute()
web_execute ==
    /\ dpc = "built"
    /\ queue' = Execute(queue, steps)
    /\ sent' = sent \o [i \in 1..Len(steps) |-> [msg |-> steps[i], by |-> "workflow"]]
    /\ out' = Append(out, results)
    /\ dpc' = "executed"
    /\ UNCHANGED <<agents, running, loopVars, calls, halt, nops, wdata, steps, results, kind,
                   regs, query>>

\* `await websocket.send_json(...)` completes, after any steps of the other
\* tasks while it was suspended; the handler then waits in receive_json()
web_send_json ==
    /\ Idle
    /\ dpc = "executed"
    /\ dpc' = "recv"
    /\ UNCHANGED <<coordVars, loopVars, histVars, wdata, steps, results, kind, obsVars>>

\* The client went away: receive_json() raises WebSocketDisconnect, or
\* send_json() raises (and so does the send of the error message); the
\* handler ends and the coordinator is left as it is.
web_disconnect ==
    /\ Idle
    /\ kind = "web"
    /\ dpc \in {"recv", "executed"}
    /\ dpc' = "closed"
    /\ UNCHANGED <<coordVars, loopVars, histVars, wdata, steps, results, kind, obsVars>>

\* shutdown_event: coordinator.stop()
web_shutdown ==
    /\ Idle
    /\ running
    /\ StopFlag
    /\ UNCHANGED <<agents, queue, loopVars, sent, calls, nops, driverVars, obsVars>>

\* startup_event has run setup_agents() and created the loop task; a client is
\* connected and the handler waits for its first request.
InitWeb ==
    /\ \E setup \in SetupLists : InitCoordinator(setup) /\ regs = setup
    /\ pc = [l \in Loops |-> IF l = 1 THEN "created" ELSE "none"]
    /\ cur = [l \in Loops |-> NoMessage]
    /\ recv = [l \in Loops |-> NoAgent]
    /\ err = [l \in Loops |-> None]
    /\ InitHistory
    /\ dpc = "recv"
    /\ wdata = <<>>
    /\ steps = <<>>
    /\ results = <<>>
    /\ kind = "web"

WebStep ==
    \/ \E data \in WebRequests : nops + Cost(data) <= MaxSteps + 1 /\ web_build(data)
    \/ web_execute
    \/ web_send_json
    \/ web_disconnect
    \/ web_shutdown

\* The other callers of the coordinator's API.
ApiStep ==
    \/ nops < MaxSteps /\ \E agent \in AgentObjs : register_agent(agent)
    \/ nops < MaxSteps /\ get_agent_capabilities
    \/ nops < MaxSteps /\ \E task_type \in TaskTypes : delegate_task(task_type)

WebLoopStep ==
    \/ start(1)
    \/ loop_exit(1)
    \/ loop_wait(1)
    \/ loop_get(1)
    \/ loop_wake(1)
    \/ \E result \in Results : process_return(1, result)
    \/ \E e \in Errors : process_raise(1, e)
    \/ handle_return(1)
    \/ handle_raise(1)

NextWeb == WebStep \/ ApiStep \/ WebLoopStep

SpecWeb == InitWeb /\ [][NextWeb]_vars

----------------------------------------------------------------------------
(* Properties of route_message, checked under Spec *)

Last(s) == s[Len(s)]

\* The events of the task l, in order.
CallsOf(l) == SelectSeq(calls, LAMBDA e : e.loop = l)

\* The context asks for a reply: it has the entry requires_response, set to true.
AsksReply(m) ==
    /\ "requires_response" \in DOMAIN m.context
    /\ m.context["requires_response"] = TRUE

\* The step dequeues a message and hands it to route_message.
Dequeues == Len(Routed') = Len(Routed) + 1

\* The name is a key of the registry.
Registered(name) == \E i \in 1..Len(agents) : agents[i].name = name

\* C1: when process returns for a message whose receiver is registered and
\* whose context has requires_response true, that routing enqueues exactly one
\* message: sender and receiver swapped, content the value process returned,
\* message_type "response", the request's context. The dequeue itself
\* enqueues nothing.
C1_ReplyOnSuccess ==
    [][/\ Dequeues => sent' = sent
       /\ \A l \in Loops :
            (pc[l] = "process" /\ pc'[l] = "check" /\ AsksReply(cur[l]))
            => LET reply == [sender |-> cur[l].receiver,
                             receiver |-> cur[l].sender,
                             content |-> Last(calls').result,
                             message_type |-> "response",
                             context |-> cur[l].context]
               IN /\ queue' = Append(queue, reply)
                  /\ sent' = Append(sent, [msg |-> reply, by |-> "reply"])]_vars

\* process has just returned for a request that asked for a reply, and the
\* reply is the newest message of the queue.
C1_Witness ==
    /\ pc[1] = "check"
    /\ Len(calls) >= 2
    /\ Last(calls).op = "return"
    /\ calls[Len(calls) - 1].op = "process"
    /\ AsksReply(calls[Len(calls) - 1].msg)
    /\ queue # <<>>
    /\ Last(queue).message_type = "response"
    /\ Last(queue).content = Last(calls).result
    /\ Last(queue).receiver = calls[Len(calls) - 1].msg.sender

\* C2: while a message whose context has requires_response false, or no such
\* entry, is routed, no step of the routing enqueues anything: the dequeue only
\* removes the message, and whatever process does afterwards leaves the queue
\* as it is.
C2_NoReplyUnlessAsked ==
    [][/\ (queue # <<>> /\ Dequeues /\ ~AsksReply(Head(queue)))
          => (queue' = Tail(queue) /\ sent' = sent)
       /\ \A l \in Loops :
            (InFlight(l) /\ pc'[l] # pc[l] /\ ~AsksReply(cur[l]))
            => (queue' = queue /\ sent' = sent)]_vars

\* process has returned both for a message without a requires_response entry
\* and for one whose entry is false.
C2_Witness ==
    /\ \E i \in 1..(Len(calls) - 1) :
         /\ calls[i].op = "process"
         /\ "requires_response" \notin DOMAIN calls[i].msg.context
         /\ calls[i + 1].op = "return"
    /\ \E i \in 1..(Len(calls) - 1) :
         /\ calls[i].op = "process"
         /\ "requires_response" \in DOMAIN calls[i].msg.context
         /\ calls[i].msg.context["requires_response"] = FALSE
         /\ calls[i + 1].op = "return"

\* C3: with a single dispatch loop, the messages are dequeued and routed in
\* the order in which they were put on the queue: the sequence of routed
\* messages is a prefix of the sequence of enqueued messages.
C3_Fifo ==
    /\ Len(Routed) <= Len(Enqueued)
    /\ \A i \in 1..Len(Routed) : Routed[i] = Enqueued[i]

\* Three different messages were sent by producers and all three have been
\* routed.
C3_Witness ==
    /\ Len(Routed) = 3
    /\ \A i \in 1..3 : sent[i].by = "producer"
    /\ Routed[1] # Routed[2]
    /\ Routed[2] # Routed[3]
    /\ Routed[1] # Routed[3]

\* C4: when process raises, handle_error is called exactly once, on the agent
\* whose process raised and with the error raised; no reply is enqueued for
\* that routing whatever requires_response says, so the replies are exactly
\* those of the successful calls that asked for one, and no error is ever the
\* content of a message.
C4_FailureHandledOnce ==
    /\ \A i \in 1..Len(calls) :
         calls[i].op = "raise" =>
           /\ i > 1
           /\ calls[i - 1].op = "process"
           /\ i < Len(calls)
           /\ calls[i + 1].op = "handle_error"
           /\ calls[i + 1].agent = calls[i - 1].agent
           /\ calls[i + 1].error = calls[i].error
           /\ (i + 2 <= Len(calls) => calls[i + 2].op \in {"handled", "crash"})
    /\ Cardinality({i \in 1..Len(calls) : calls[i].op = "handle_error"})
         = Cardinality({i \in 1..Len(calls) : calls[i].op = "raise"})
    /\ Cardinality({i \in 1..Len(sent) : sent[i].by = "reply"})
         = Cardinality({i \in 2..Len(calls) :
                          calls[i].op = "return" /\ AsksReply(calls[i - 1].msg)})
    /\ \A i \in 1..Len(sent) : sent[i].msg.content \notin Errors

\* process raised for a request that asked for a reply, and handle_error has
\* returned.
C4_Witness ==
    /\ Len(calls) >= 4
    /\ Last(calls).op = "handled"
    /\ calls[Len(calls) - 2].op = "raise"
    /\ calls[Len(calls) - 3].op = "process"
    /\ AsksReply(calls[Len(calls) - 3].msg)

\* C5: when the receiver of the dequeued message is not a key of the registry,
\* route_message calls neither process nor handle_error, enqueues nothing,
\* raises nothing and returns: the loop is back at its while test with the
\* running flag untouched.
C5_UnknownReceiverDropped ==
    [][(queue # <<>> /\ Dequeues /\ ~Registered(Head(queue).receiver))
       => /\ Len(calls') = Len(calls) + 1
          /\ Last(calls').op = "not_found"
          /\ Last(calls').msg = Head(queue)
          /\ pc'[Last(calls').loop] = "check"
          /\ queue' = Tail(queue)
          /\ sent' = sent
          /\ running' = running]_vars

\* A message to an unknown receiver was dropped and the loop went on to route
\* the message behind it.
C5_Witness ==
    \E i \in 1..(Len(calls) - 1) :
        /\ calls[i].op = "not_found"
        /\ IsRouting(calls[i + 1])

\* C6: a failure of process does not stop the loop. The error is caught
\* (process leaves towards handle_error, not out of start()); when
\* handle_error returns the loop is back at its while test with the running
\* flag and the queue untouched; and from there, if the flag is still set, the
\* next step of the loop takes the message at the head of the queue.
C6_LoopSurvivesFailure ==
    [][\A l \in Loops :
         /\ (pc[l] = "process" /\ pc'[l] # pc[l]) => pc'[l] \in {"check", "handle"}
         /\ (pc[l] = "handle" /\ Len(calls') > Len(calls) /\ Last(calls').op = "handled")
            => (pc'[l] = "check" /\ running' = running /\ queue' = queue)
         /\ (/\ pc[l] = "check"
             /\ Len(calls) > 0
             /\ Last(calls).op = "handled"
             /\ Last(calls).loop = l
             /\ running
             /\ queue # <<>>)
            => (/\ Routed' = Append(Routed, Head(queue))
                /\ queue' = Tail(queue)
                /\ pc'[l] \in {"process", "check"})]_vars

\* process raised, handle_error returned, and the loop has routed the next
\* message.
C6_Witness ==
    \E i \in 1..(Len(calls) - 4) :
        /\ calls[i].op = "process"
        /\ calls[i + 1].op = "raise"
        /\ calls[i + 3].op = "handled"
        /\ IsRouting(calls[i + 4])

\* C7: with a single start(), at most one agent call is in flight: a call of
\* process is followed by its own return or raise, and a call of handle_error
\* by its own end, before the loop dequeues again.
C7_OneCallInFlight ==
    /\ Cardinality({l \in Loops : InFlight(l)}) <= 1
    /\ \A i \in 1..(Len(calls) - 1) :
         /\ calls[i].op = "process" => calls[i + 1].op \in {"return", "raise"}
         /\ calls[i].op = "handle_error" => calls[i + 1].op \in {"handled", "crash"}
    /\ (\E l \in Loops : InFlight(l))
         <=> (Len(calls) > 0 /\ Last(calls).op \in {"process", "handle_error"})

\* process is in flight, and a producer has enqueued a message during this
\* very call: the queue was empty at a stop() made during the call and is not
\* empty now.
C7_Witness ==
    /\ pc[1] = "process"
    /\ Last(calls).op = "process"
    /\ halt.stopped
    /\ halt.pc[1] = "process"
    /\ halt.routed = Len(Routed)
    /\ halt.queue = <<>>
    /\ queue # <<>>

\* C8: after a stop() called while the loop is idle (suspended in get() on an
\* empty queue), route_message is not called again, whatever is sent later.
C8_IdleStopEndsRouting ==
    \A l \in Loops :
        (halt.stopped /\ halt.queue = <<>> /\ halt.pc[l] = "waiting")
        => Len(Routed) = halt.routed

\* C9: after a stop() called while a message is being routed, the loop never
\* dequeues again and never waits for a message: the messages that were queued
\* at the stop are still queued, in order, at the front of the queue; once the
\* loop has exited after a successful process, the reply that was asked for is
\* queued behind them; and from its while test the loop can only exit.
C9_StopDuringRouting ==
    /\ [](\A l \in Loops :
            (halt.stopped /\ halt.pc[l] \in {"process", "handle"})
            => /\ Len(Routed) = halt.routed
               /\ pc[l] \in {"process", "handle", "check", "done", "failed"}
               /\ Len(queue) >= Len(halt.queue)
               /\ SubSeq(queue, 1, Len(halt.queue)) = halt.queue
               /\ (pc[l] = "done" /\ Last(calls).op = "return" /\ AsksReply(halt.cur[l]))
                  => \E i \in (Len(halt.queue) + 1)..Len(queue) :
                        /\ queue[i].sender = halt.cur[l].receiver
                        /\ queue[i].receiver = halt.cur[l].sender
                        /\ queue[i].content = Last(calls).result
                        /\ queue[i].message_type = "response")
    /\ [][\A l \in Loops :
            (halt.stopped /\ halt.pc[l] \in {"process", "handle"} /\ pc[l] = "check")
            => pc'[l] = "done"]_vars

\* stop() was called during a call of process for a request that asked for a
\* reply, with another message queued; process has returned and the loop has
\* exited.
C9_Witness ==
    /\ halt.stopped
    /\ halt.pc[1] = "process"
    /\ halt.queue # <<>>
    /\ AsksReply(halt.cur[1])
    /\ pc[1] = "done"
    /\ Last(calls).op = "return"
    /\ Len(queue) > Len(halt.queue)

----------------------------------------------------------------------------
(* Properties of the driver, checked under SpecDriver *)

\* C10: once the driver has built its workflow, it runs to its end: the loop
\* task terminates and the driver's `await coordinator_task` returns.
C10_DriverTerminates ==
    (dpc = "built") ~> (pc[1] \in {"done", "failed"} /\ dpc \in {"returned", "error"})

----------------------------------------------------------------------------
(* Replies to senders that are not agents, checked under Spec *)

\* C11: a request from a sender that is not registered, to a registered agent,
\* asking for a reply: when process returns, exactly one message is added to
\* the queue, a reply addressed to that sender. When the loop dequeues a reply
\* whose receiver is not registered, it drops it: no agent is called, nothing
\* is enqueued, and the loop goes back to its while test with the running flag
\* as it was; from there it goes on (it waits or takes the next message).
C11_ReplyToUnknownSenderDropped ==
    [][\A l \in Loops :
        /\ (pc[l] = "process" /\ pc'[l] = "check" /\ AsksReply(cur[l])
                /\ ~Registered(cur[l].sender))
           => /\ Len(queue') = Len(queue) + 1
              /\ SubSeq(queue', 1, Len(queue)) = queue
              /\ Last(queue').receiver = cur[l].sender
              /\ Last(queue').message_type = "response"
        /\ (pc[l] \in {"check", "waiting"} /\ Dequeues
                /\ Head(queue).message_type = "response"
                /\ ~Registered(Head(queue).receiver))
           => /\ queue' = Tail(queue)
              /\ calls' = Append(calls, [op |-> "not_found", loop |-> l, msg |-> Head(queue)])
              /\ sent' = sent
              /\ pc'[l] = "check"
              /\ running' = running
              /\ agents' = agents
        /\ (pc[l] = "check" /\ running /\ Len(calls) > 0 /\ Last(calls).op = "not_found"
                /\ Last(calls).msg.message_type = "response")
           => pc'[l] \in {"waiting", "process", "check"}]_vars

\* The request of the unregistered sender "t" was alone in the queue: process
\* returned, the next cycle dropped the reply, and the loop, still running,
\* waits on the empty queue.
C11_Witness ==
    /\ Len(calls) >= 3
    /\ LET n == Len(calls) IN
        /\ calls[n - 2].op = "process"
        /\ calls[n - 2].msg.sender = "t"
        /\ AsksReply(calls[n - 2].msg)
        /\ calls[n - 1].op = "return"
        /\ calls[n].op = "not_found"
        /\ calls[n].msg.receiver = "t"
        /\ calls[n].msg.message_type = "response"
    /\ Len(sent) = 2
    /\ sent[2].by = "reply"
    /\ queue = <<>>
    /\ running
    /\ pc[1] = "waiting"

\* C14: send_message completes as soon as the message is on the queue,
\* whatever the dispatch loop is doing: whenever a producer runs, the send
\* can be made (loop never started, stopped, or inside an agent call), and
\* the step of the send puts the message at the tail of the queue without
\* any step of the loop: the message has not been routed when the send
\* returns.
C14_SendCompletesWithoutLoop ==
    /\ [](Idle => \A m \in Messages : ENABLED send_message(m))
    /\ [][(Len(sent') = Len(sent) + 1 /\ Last(sent').by = "producer")
            => /\ queue' = Append(queue, Last(sent').msg)
               /\ calls' = calls
               /\ pc' = pc]_vars

\* A send was made while process was in flight and after a stop(): the
\* message is queued and the call has not ended.
C14_Witness ==
    /\ halt.stopped
    /\ halt.pc[1] = "process"
    /\ halt.routed = Len(Routed)
    /\ pc[1] = "process"
    /\ ~running
    /\ Len(queue) = Len(halt.queue) + 1
    /\ Last(sent).by = "producer"
    /\ Last(sent).msg = Last(queue)

\* C17: a routing that fails changes nothing but the removal of its message
\* from the queue. The dequeue removes the head of the queue and leaves the
\* rest, the registry and the running flag as they were; when the receiver is
\* not registered nothing is enqueued either. When process raises, and when
\* handle_error ends (by returning or by raising), the registry, the queue
\* and the running flag are unchanged: the message is not enqueued again.
C17_FailureOnlyRemovesMessage ==
    [][/\ Dequeues
          => /\ queue' = Tail(queue)
             /\ agents' = agents
             /\ running' = running
             /\ ~Registered(Head(queue).receiver) => sent' = sent
       /\ \A l \in Loops :
            ((pc[l] = "process" /\ pc'[l] = "handle") \/ (pc[l] = "handle" /\ pc'[l] # "handle"))
            => /\ queue' = queue
               /\ agents' = agents
               /\ running' = running
               /\ sent' = sent]_vars

\* A routing has failed in process and been handled while another message
\* was queued behind it: that message is still queued and the loop runs.
C17_Witness ==
    /\ Len(calls) >= 4
    /\ Last(calls).op = "handled"
    /\ calls[Len(calls) - 2].op = "raise"
    /\ queue # <<>>
    /\ Len(sent) = Len(Routed) + Len(queue)
    /\ agents # <<>>
    /\ running

\* C19, as claimed: the reply to a message N is enqueued ahead of every
\* message that a producer enqueues after N, also of those enqueued while
\* the process call for N is suspended. A stop() made during the call marks
\* a moment after N was dequeued: what is queued beyond the queue of that
\* moment was enqueued after N, so once process has returned the reply is the
\* first message beyond it.
C19_ReplyAheadOfLaterMessages ==
    \A l \in Loops :
        (/\ halt.stopped
         /\ halt.pc[l] = "process"
         /\ AsksReply(halt.cur[l])
         /\ Len(Routed) = halt.routed
         /\ Last(calls).op = "return")
        => /\ Len(queue) > Len(halt.queue)
           /\ queue[Len(halt.queue) + 1].message_type = "response"
           /\ queue[Len(halt.queue) + 1].receiver = halt.cur[l].sender

\* C19, amended: the reply to N is enqueued when process returns, at the tail
\* of the queue: behind N and behind every message enqueued before that
\* moment, also those that producers enqueued while the call was suspended,
\* which keep their places. The queue changes only at its two ends, so the
\* reply stays ahead of whatever is enqueued after the call has returned.
C19_ReplyAtTailOnReturn ==
    [][/\ \A l \in Loops :
            (pc[l] = "process" /\ pc'[l] = "check" /\ AsksReply(cur[l]))
            => /\ Len(queue') = Len(queue) + 1
               /\ SubSeq(queue', 1, Len(queue)) = queue
               /\ Last(queue').message_type = "response"
               /\ Last(queue').receiver = cur[l].sender
               /\ Last(queue').sender = cur[l].receiver
       /\ queue' # queue
          => \/ queue # <<>> /\ queue' = Tail(queue)
             \/ /\ Len(queue') > Len(queue)
                /\ SubSeq(queue', 1, Len(queue)) = queue]_vars

\* A producer enqueued a message while process was suspended on N (after a
\* stop() made during the call); process returned, and the reply is queued
\* behind the producer's message.
C19_Witness ==
    /\ halt.stopped
    /\ halt.pc[1] = "process"
    /\ AsksReply(halt.cur[1])
    /\ Len(Routed) = halt.routed
    /\ Last(calls).op = "return"
    /\ Len(queue) = Len(halt.queue) + 2
    /\ queue[Len(halt.queue) + 1].message_type = "process"
    /\ Last(queue).message_type = "response"
    /\ Last(queue).receiver = halt.cur[1].sender

\* C22: as long as a process call has not ended, the loop stays inside it,
\* whether or not stop() has been called: only the call's own return or
\* raise moves the loop, no message is dequeued while the call lasts (the
\* queue only grows), and producers can still enqueue.
C22_HungCallBlocksStop ==
    /\ []((Idle /\ \E l \in Loops : pc[l] = "process")
            => \A m \in Messages : ENABLED send_message(m))
    /\ [][/\ \A l \in Loops :
              (pc[l] = "process" /\ pc'[l] # "process")
              => (/\ Len(calls') > Len(calls)
                  /\ calls'[Len(calls) + 1].op \in {"return", "raise"}
                  /\ calls'[Len(calls) + 1].loop = l)
          /\ ((\E k \in Loops : pc[k] = "process")
              => (/\ ~Dequeues
                  /\ Len(queue') >= Len(queue)
                  /\ SubSeq(queue', 1, Len(queue)) = queue))]_vars

\* stop() was called while process was in flight with a message queued
\* behind it; the call has not ended: the loop is still inside it, the flag
\* is false and the message is still queued.
C22_Witness ==
    /\ halt.stopped
    /\ halt.pc[1] = "process"
    /\ halt.queue # <<>>
    /\ pc[1] = "process"
    /\ ~running
    /\ queue = halt.queue
    /\ Len(Routed) = halt.routed
    /\ Last(calls).op = "process"

\* C23: once the loop has started and is not stopped, and every process
\* call returns, the finitely many messages of the producers and the replies
\* they cause are eventually all routed: the queue is then empty and the
\* loop idle in get().
C23_QueueEventuallyDrains ==
    (pc[1] = "check") ~> (queue = <<>> /\ pc[1] = "waiting")

\* C24: the first step of start() sets the running flag whatever happened
\* before it, a stop() included; from then on the loop dequeues whenever a
\* message is queued at its while test, and it ends only at a while test
\* that finds the flag cleared by a stop() issued after start() began.
C24_StopBeforeStartForgotten ==
    /\ [](\A l \in Loops :
             (pc[l] = "check" /\ running /\ queue # <<>>) => ENABLED loop_get(l))
    /\ [][\A l \in Loops :
             /\ (pc[l] = "created" /\ pc'[l] # "created")
                => (running' /\ pc'[l] = "check" /\ queue' = queue)
             /\ (pc[l] # "done" /\ pc'[l] = "done")
                => (pc[l] = "check" /\ ~running /\ halt.stopped)]_vars

\* On a coordinator without agents one producer call was a send and the
\* other a stop() that came before the first step of start() (no stop is
\* recorded since that step): the flag is true and the loop has dequeued
\* the message.
C24_Witness ==
    /\ regs = <<>>
    /\ nops = 2
    /\ Len(SelectSeq(sent, LAMBDA e : e.by = "producer")) = 1
    /\ halt = NoHalt
    /\ running
    /\ pc[1] = "check"
    /\ Len(Routed) = 1

\* C25: the step that dequeues a message looks its receiver up in the
\* registry as it is at that step: if the name has been registered by then
\* the message is handed to the agent of the most recent registration under
\* the name, and it is dropped as not found only if the name has never been
\* registered by then.
C25_ReceiverResolvedAtDispatch ==
    [][Dequeues =>
         /\ queue # <<>>
         /\ Last(calls').msg = Head(queue)
         /\ IF Head(queue).receiver \in {regs[k].name : k \in 1..Len(regs)}
            THEN /\ Last(calls').op = "process"
                 /\ Last(calls').agent =
                       regs[CHOOSE k \in 1..Len(regs) :
                               /\ regs[k].name = Head(queue).receiver
                               /\ \A j \in 1..Len(regs) :
                                     regs[j].name = Head(queue).receiver => j <= k]
            ELSE Last(calls').op = "not_found"]_vars

\* At a stop() the message was queued and its receiver's name was held by
\* another agent than the one that has now been handed the message: the
\* name was re-registered between the send and the dispatch.
C25_Witness ==
    /\ halt.stopped
    /\ Len(halt.queue) = 1
    /\ HasAgent(halt.agents, halt.queue[1].receiver)
    /\ Len(Routed) = halt.routed + 1
    /\ Last(calls).op = "process"
    /\ Last(calls).msg = halt.queue[1]
    /\ Last(calls).agent # AgentAt(halt.agents, halt.queue[1].receiver)

\* C26: the routings made so far are, position by position, the first
\* messages enqueued (external sends and replies), and the queue holds the
\* rest: no message is routed twice and the process invocations plus the
\* drops never outnumber the messages enqueued. Each routing is one process
\* invocation on an agent named as the receiver or one not-found drop, and a
\* message leaves the queue exactly in the step that records its routing.
C26_RoutedAtMostOnce ==
    /\ [](/\ Len(Routings) <= Len(sent)
          /\ Len(Routings) + Len(queue) = Len(sent)
          /\ \A i \in 1..Len(Routings) :
                /\ Routings[i].msg = sent[i].msg
                /\ Routings[i].op = "process" => Routings[i].agent.name = sent[i].msg.receiver
          /\ \A i \in 1..Len(queue) : queue[i] = sent[Len(Routings) + i].msg)
    /\ [][/\ Len(Routings') \in {Len(Routings), Len(Routings) + 1}
          /\ (Len(queue') = Len(queue) - 1) <=> (Len(Routings') = Len(Routings) + 1)]_vars

\* Three messages were enqueued, two by producers and one as a reply; two
\* have been routed, one to process and one dropped, and the third is queued.
C26_Witness ==
    /\ Len(sent) = 3
    /\ \E i \in 1..3 : sent[i].by = "reply"
    /\ Len(Routings) = 2
    /\ \E i \in 1..2 : Routings[i].op = "process"
    /\ \E i \in 1..2 : Routings[i].op = "not_found"
    /\ Len(queue) = 1
    /\ pc[1] = "check"

\* C28: when handle_error raises, the task of start() ends in that very
\* step, which touches neither the running flag nor the queue and is no
\* stop(); the ended task never moves again and dequeues nothing, so with
\* no other task the messages queued stay queued while producers can add
\* more.
C28_HandlerFailureEndsLoop ==
    /\ [](\A l \in Loops : pc[l] = "failed" => Last(CallsOf(l)).op = "crash")
    /\ [][/\ \A l \in Loops :
               /\ (Len(calls') > Len(calls) /\ Last(calls').op = "crash" /\ Last(calls').loop = l)
                  => /\ pc[l] = "handle"
                     /\ pc'[l] = "failed"
                     /\ running' = running
                     /\ queue' = queue
                     /\ halt' = halt
               /\ pc[l] = "failed" => pc'[l] = "failed"
          /\ (\A k \in Loops : pc[k] \in {"none", "failed"})
             => (/\ ~Dequeues
                 /\ Len(queue') >= Len(queue)
                 /\ SubSeq(queue', 1, Len(queue)) = queue)]_vars

\* handle_error raised while a message was queued behind the failed one: the
\* task has ended, the flag is still true, stop() has not been called since
\* start(), and the message is still queued.
C28_Witness ==
    /\ pc[1] = "failed"
    /\ running
    /\ ~halt.stopped
    /\ nops = 2
    /\ Len(SelectSeq(sent, LAMBDA e : e.by = "producer")) = 2
    /\ Len(Routed) = 1
    /\ queue = <<sent[2].msg>>

----------------------------------------------------------------------------
(* Workflows and the registry, checked under SpecWeb *)

\* C12: execute() makes one send_message per step, in list order: the step of
\* execute() appends the steps s1..sn, and nothing else, to the queue in that
\* order, behind what was queued. Building the workflow with add_step
\* enqueues nothing.
C12_ExecuteSendsStepsInOrder ==
    [][/\ (dpc = "built" /\ dpc' = "executed")
          => /\ Len(queue') = Len(queue) + Len(steps)
             /\ SubSeq(queue', 1, Len(queue)) = queue
             /\ \A i \in 1..Len(steps) : queue'[Len(queue) + i] = steps[i]
             /\ Len(sent') = Len(sent) + Len(steps)
             /\ \A i \in 1..Len(steps) :
                   sent'[Len(sent) + i] = [msg |-> steps[i], by |-> "workflow"]
       /\ (dpc = "recv" /\ dpc' # "recv")
          => /\ queue' = queue
             /\ sent' = sent]_vars

\* execute() has just run on a workflow of two different steps while an
\* earlier message was still queued: the two newest entries are the steps.
C12_Witness ==
    /\ dpc = "executed"
    /\ Len(steps) = 2
    /\ steps[1] # steps[2]
    /\ Len(queue) >= 3
    /\ SubSeq(queue, Len(queue) - 1, Len(queue)) = steps

\* C13: a Workflow's results list is never written: it is empty in every
\* state, and every execute() has returned an empty list, also after replies
\* to the workflow's steps have been produced and routed.
C13_ResultsStayEmpty ==
    /\ results = <<>>
    /\ \A i \in 1..Len(out) : out[i] = <<>>

\* Two workflows were executed; an agent returned a result for a step, and
\* the reply addressed to "web_client" has been routed (dropped).
C13_Witness ==
    /\ Len(out) = 2
    /\ Len(steps) >= 1
    /\ \E i \in 1..Len(calls) : calls[i].op = "return"
    /\ \E i \in 1..Len(calls) :
          /\ calls[i].op = "not_found"
          /\ calls[i].msg.receiver = "web_client"
          /\ calls[i].msg.message_type = "response"

\* The agent of the most recent register_agent call made with the name.
LatestRegistered(name) ==
    LET ks == {k \in 1..Len(regs) : regs[k].name = name}
        k == CHOOSE k \in ks : \A j \in ks : j <= k
    IN regs[k]

RegisteredNames == {regs[k].name : k \in 1..Len(regs)}

\* C15: after any sequence of register_agent calls the registry holds, for
\* each name registered, exactly one agent: the one of the most recent call
\* for that name. get_agent_capabilities() has exactly one entry per
\* registered name, with the capabilities of that agent, and a message routed
\* to the name is handed to that agent.
C15_LastWriteWins ==
    /\ [](/\ {agents[i].name : i \in 1..Len(agents)} = RegisteredNames
          /\ \A name \in RegisteredNames :
                /\ Cardinality({i \in 1..Len(agents) : agents[i].name = name}) = 1
                /\ AgentAt(agents, name) = LatestRegistered(name)
                /\ LET c == GetAgentCapabilities(agents)
                       is == {i \in 1..Len(c) : c[i].name = name}
                   IN /\ Cardinality(is) = 1
                      /\ \A i \in is : c[i].capabilities = LatestRegistered(name).capabilities
          /\ Len(GetAgentCapabilities(agents)) = Cardinality(RegisteredNames))
    /\ [][/\ (query' # query /\ query'.op = "get_agent_capabilities")
             => /\ Len(query'.result) = Cardinality(RegisteredNames)
                /\ \A name \in RegisteredNames :
                      \E i \in 1..Len(query'.result) :
                          /\ query'.result[i].name = name
                          /\ query'.result[i].capabilities
                                = LatestRegistered(name).capabilities
          /\ (Dequeues /\ Head(queue).receiver \in RegisteredNames)
             => /\ Last(calls').op = "process"
                /\ Last(calls').agent = LatestRegistered(Head(queue).receiver)]_vars

\* The name "a" was registered twice, with different agents; the capabilities
\* were asked for afterwards and show the second agent's, and a message to
\* "a" was handed to the second agent.
C15_Witness ==
    /\ \E j, k \in 1..Len(regs) : j < k /\ regs[j] = A1 /\ regs[k] = A2
    /\ LatestRegistered("a") = A2
    /\ query.op = "get_agent_capabilities"
    /\ \E i \in 1..Len(query.result) :
          query.result[i] = [name |-> "a", capabilities |-> A2.capabilities]
    /\ \E i \in 1..Len(calls) :
          calls[i].op = "process" /\ calls[i].msg.receiver = "a" /\ calls[i].agent = A2

----------------------------------------------------------------------------
(* delegate_task, checked under SpecRegistry *)

\* The call that registered the agent now held under the name of regs[k].
IsCurrent(k) == \A j \in 1..Len(regs) : regs[j].name = regs[k].name => j <= k

\* The first call that registered the name.
FirstCall(name) ==
    CHOOSE k \in 1..Len(regs) :
        regs[k].name = name /\ \A j \in 1..Len(regs) : regs[j].name = name => k <= j

\* The calls whose agent is registered now and has the capability.
Holders(task_type) ==
    {k \in 1..Len(regs) : IsCurrent(k) /\ InCapabilities(task_type, regs[k].capabilities)}

\* C16, as claimed: delegate_task returns the first agent, in the order of the
\* register_agent calls that registered the agents now held, whose
\* capabilities contain the tag, and None when no registered agent has it.
C16_FirstInRegistrationOrder ==
    [][(query' # query /\ query'.op = "delegate_task")
        => LET hs == Holders(query'.arg) IN
           IF hs = {} THEN query'.result = <<>>
           ELSE query'.result = <<regs[CHOOSE k \in hs : \A j \in hs : k <= j]>>]_vars

\* C16, amended: delegate_task returns the first agent in the order in which
\* the names were first registered (a name registered again keeps the place
\* of its first registration and holds its latest agent) whose capabilities
\* contain the tag, and None when no registered agent has it.
C16_FirstInNameOrder ==
    [][(query' # query /\ query'.op = "delegate_task")
        => LET hs == Holders(query'.arg) IN
           IF hs = {} THEN query'.result = <<>>
           ELSE query'.result =
                  <<regs[CHOOSE k \in hs :
                            \A j \in hs : FirstCall(regs[k].name) <= FirstCall(regs[j].name)]>>]_vars

\* "a" was registered, then "b", then "a" again with another agent; both
\* agents now held have "upper", and delegate_task("upper") returned the
\* agent of the third call.
C16_Witness ==
    /\ regs = <<A1, B1, A2>>
    /\ query.op = "delegate_task"
    /\ query.arg = "upper"
    /\ query.result = <<A2>>

----------------------------------------------------------------------------
(* Workflow descriptions with a malformed step, checked under SpecWeb *)

\* C18: a workflow description with a step that lacks a required key makes
\* the driver fail while it builds the Workflow, and among the descriptions
\* received only such a one does. The failing build enqueues nothing, not
\* even the well-formed steps before the bad one, and leaves the registry,
\* the queue and the running flag unchanged; the driver that failed never
\* enqueues anything later.
C18_BadStepEnqueuesNothing ==
    [][/\ (dpc = "recv" /\ dpc' # "recv" /\ nops' # nops)
          => (dpc' = "closed"
                <=> \E i \in 1..Len(wdata') :
                        ~({"agent", "input", "type"} \subseteq DOMAIN wdata'[i]))
       /\ (dpc = "recv" /\ dpc' = "closed")
          => /\ agents' = agents
             /\ queue' = queue
             /\ running' = running
             /\ sent' = sent
       /\ dpc = "closed"
          => /\ dpc' = "closed"
             /\ Len(sent') > Len(sent) => Last(sent').by # "workflow"]_vars

\* The build failed on the second step of a description whose first step is
\* well formed, while messages of an earlier workflow were queued: they are
\* all that was ever sent by a workflow.
C18_Witness ==
    /\ dpc = "closed"
    /\ Len(wdata) = 2
    /\ Len(steps) = 1
    /\ Len(out) = 1
    /\ queue # <<>>
    /\ Cardinality({i \in 1..Len(sent) : sent[i].by = "workflow"}) = 1

----------------------------------------------------------------------------
(* The registry as a whole, checked under SpecWeb *)

Names(reg) == {reg[i].name : i \in 1..Len(reg)}

\* C20: the registry changes only in a step of register_agent, and no step
\* takes a name out of it: sending, routing (success, failure or drop),
\* start, stop, get_agent_capabilities, delegate_task, add_step and execute
\* leave it as it is, and the set of registered names only grows.
C20_RegistryOnlyGrows ==
    [][/\ regs' = regs => agents' = agents
       /\ agents' # agents
          => \E agent \in AgentObjs :
                /\ regs' = Append(regs, agent)
                /\ \E i \in 1..Len(agents') : agents'[i] = [name |-> agent.name, agent |-> agent]
       /\ Names(agents) \subseteq Names(agents')
       /\ Len(agents') >= Len(agents)]_vars

\* An agent was registered on top of an existing name; since the start a
\* workflow was built and executed, a routing failed and was handled,
\* delegate_task was called and stop() was called.
C20_Witness ==
    /\ Len(regs) > Len(agents)
    /\ Len(out) >= 1
    /\ \E i \in 1..Len(calls) : calls[i].op = "handled"
    /\ query.op = "delegate_task"
    /\ halt.stopped

----------------------------------------------------------------------------
(* Two start() tasks on one coordinator, checked under SpecTwo *)

\* C21: with two start() tasks on one coordinator, both consume from the one
\* queue and each may be inside an agent call (so two calls can be in flight,
\* and the later message can be finished first), while every message is
\* handed to one task only: what has been dequeued, followed by what is
\* queued, is exactly what was enqueued, in order; a dequeue moves one task
\* only; and a task is in an agent call exactly when its own last event is
\* the start of a call, made for the message it holds.
C21_TwoLoopsShareQueue ==
    /\ [](/\ Routed \o queue = Enqueued
          /\ \A l \in Loops :
                /\ InFlight(l)
                   <=> (CallsOf(l) # <<>> /\ Last(CallsOf(l)).op \in {"process", "handle_error"})
                /\ pc[l] = "process" => Last(CallsOf(l)).msg = cur[l])
    /\ [][Dequeues
            => \E l \in Loops :
                  /\ pc[l] \in {"check", "waiting"}
                  /\ Last(calls').loop = l
                  /\ \A k \in Loops \ {l} : pc'[k] = pc[k] /\ cur'[k] = cur[k]]_vars

\* Both tasks were inside process at once, task 1 on the message dequeued
\* first; the call of task 2 has returned and that of task 1 has not.
C21_Witness ==
    /\ Len(calls) = 3
    /\ calls[1].op = "process" /\ calls[1].loop = 1
    /\ calls[2].op = "process" /\ calls[2].loop = 2
    /\ calls[3].op = "return" /\ calls[3].loop = 2
    /\ pc[1] = "process"
    /\ cur[1] = Enqueued[1]
    /\ Routed = SubSeq(Enqueued, 1, 2)

----------------------------------------------------------------------------
(* A stop() followed by a second start(), checked under SpecRestart *)

\* C27: a stop() step leaves the queue as it is, send_message is enabled
\* while the flag is false and appends to the queue, and the first step of
\* a later start() leaves the queue as it is; every dequeue, by whichever
\* task, takes the head of the queue, so the messages are routed in the
\* order they were enqueued, those retained over the stop before those
\* enqueued after the second start().
C27_QueueSurvivesStop ==
    /\ [](Routed \o queue = Enqueued)
    /\ []((~running /\ Idle) => \A m \in Messages : ENABLED send_message(m))
    /\ [][/\ (running /\ ~running') => queue' = queue
          /\ (\E l \in Loops : pc[l] = "created" /\ pc'[l] # "created") => queue' = queue
          /\ (~running /\ Len(sent') > Len(sent)) => queue' = Append(queue, Last(sent').msg)
          /\ Dequeues => (queue # <<>> /\ Last(Routed') = Head(queue) /\ queue' = Tail(queue))
         ]_vars

\* The first task ended after one call, during which stop() was called (a
\* task that returns from a call with the flag true goes on); the reply of
\* that call was therefore enqueued while the coordinator was stopped. The
\* task of the second start() has routed that reply, and a message of a
\* producer is queued behind it.
C27_Witness ==
    /\ pc[1] = "done"
    /\ Len(CallsOf(1)) = 2
    /\ CallsOf(1)[1].op = "process"
    /\ CallsOf(1)[2].op = "return"
    /\ Len(CallsOf(2)) = 1
    /\ running
    /\ Len(sent) = 3
    /\ sent[2].by = "reply"
    /\ CallsOf(2)[1].msg = sent[2].msg
    /\ queue = <<sent[3].msg>>
    /\ sent[3].by = "producer"

----------------------------------------------------------------------------
(* Message types, checked under SpecTypes *)

\* The message without its message type.
Untyped(m) == [m EXCEPT !.message_type = ""]

\* C29: two routed messages that differ only in message_type have the same
\* outcome, the same agent invoked with the same input or a drop in both
\* cases; a message of type "response" whose receiver is registered is
\* handed to process; and when process returns, the reply or its absence is
\* given by the sender, the receiver and the context of the message and by
\* the value returned, whatever the message type.
C29_TypeDoesNotAffectRouting ==
    /\ [](\A i, j \in 1..Len(Routings) :
             Untyped(Routings[i].msg) = Untyped(Routings[j].msg)
             => /\ Routings[i].op = Routings[j].op
                /\ Routings[i].op = "process"
                   => /\ Routings[i].agent = Routings[j].agent
                      /\ Routings[i].input = Routings[j].input)
    /\ [](\A i \in 1..Len(Routings) :
             (Routings[i].msg.message_type = "response" /\ Registered(Routings[i].msg.receiver))
             => (Routings[i].op = "process" /\ Routings[i].input = Routings[i].msg.content))
    /\ [][\A l \in Loops :
             (pc[l] = "process" /\ Len(calls') > Len(calls) /\ Last(calls').op = "return")
             => IF AsksReply(cur[l])
                THEN queue' = Append(queue, [sender |-> cur[l].receiver,
                                             receiver |-> cur[l].sender,
                                             content |-> Last(calls').result,
                                             message_type |-> "response",
                                             context |-> cur[l].context])
                ELSE queue' = queue]_vars

\* Producers sent two messages that differ only in message_type, one of them
\* of type "response"; both asked for a reply, both were handed to process,
\* and both calls have returned.
C29_Witness ==
    /\ Len(sent) = 4
    /\ sent[1].by = "producer"
    /\ sent[2].by = "producer"
    /\ sent[1].msg.message_type = "response"
    /\ sent[2].msg.message_type = "process"
    /\ Untyped(sent[1].msg) = Untyped(sent[2].msg)
    /\ AsksReply(sent[1].msg)
    /\ Len(Routings) = 2
    /\ Routings[1].op = "process"
    /\ Routings[2].op = "process"
    /\ sent[3].by = "reply"
    /\ sent[4].by = "reply"
    /\ pc[1] = "check"

====
